---- MODULE Spec2Model ----
(***************************************************************************)
(* Model of src/api/server.py: the product, order, gallery and statistics  *)
(* handlers of the storefront API over three document-store collections    *)
(* (products, orders, gallery) and the uploads directory.                  *)
(*                                                                         *)
(* The handlers are coroutines.  A handler gives up control at every       *)
(* `await`, so the instants at which it reads or writes the store or the   *)
(* disk are separate steps, and steps of different requests interleave.    *)
(* An action is what a handler does between two awaits: it starts with the *)
(* store operation the handler was waiting for and runs the code up to the *)
(* next await, reads of the clock and generated ids included.  A write is  *)
(* sent with the values computed before the await and takes effect in a    *)
(* later action; the request is parked in `inflight` meanwhile, with the   *)
(* locals it still needs and the write it has sent, as the driver encodes  *)
(* it.  What a handler does before its first store read (the dependency,   *)
(* the parsing of the body) reads no state and is taken with that read.  A *)
(* handler whose only store operation is a read or a delete whose result   *)
(* it returns is one action.                                               *)
(*                                                                         *)
(* datetime.utcnow() reads the wall clock, which is not monotonic.  The    *)
(* values read are inputs of the actions: two reads may return the same    *)
(* value, and a later read a smaller one.  The store keeps datetimes to    *)
(* the millisecond, two ticks of the clock here.  uuid.uuid4() is a fresh  *)
(* value per collection.                                                   *)
(***************************************************************************)
EXTENDS Integers, Sequences, FiniteSets, Bags, TLC

VARIABLES
    products,   \* db.products: the documents, in insertion order
    orders,     \* db.orders
    gallery,    \* db.gallery
    files,      \* the names of the files in UPLOAD_DIR
    uuids,      \* per collection, the value the next uuid.uuid4() returns
    inflight,   \* the bag of requests suspended at an await
    write_failed, \* whether a store write has raised
    req,        \* the request whose step was taken last
    resp        \* the response that step sent (NoResponse: none yet)

vars == <<products, orders, gallery, files, uuids, inflight, write_failed,
          req, resp>>

store == <<products, orders, gallery, files>>

----------------------------------------------------------------------------
(* Bounds of the model *)

\* the last value of the clock
MaxClock == 2
\* products and orders created in a run
MaxProducts == 2
MaxOrders == 2
\* requests suspended at the same time
MaxInFlight == 2
\* gallery uploads of a run
MaxImages == 2
\* orders of a run that fills the store past one page of to_list
BulkOrders == 1001

----------------------------------------------------------------------------
(* Values *)

\* Optional[T]: None, or a value
None == <<>>
Some(v) == <<v>>

NoResponse == [status |-> 0]

ADMIN_TOKEN == "admin_secret_key_2024"

\* what a client may send as its Authorization header: the bearer token, or
\* no header at all
NoHeader == "<no Authorization header>"
Credentials == {ADMIN_TOKEN, "admin_secret_key_2025", NoHeader}

\* HTTPBearer() rejects a request without credentials before
\* verify_admin_token runs; the status is 403 or 401 by FastAPI version
NotAuthenticated == {401, 403}

\* class OrderStatus: the four members (by name)
OrderStatus == {"PENDING", "READY", "DELIVERED", "CANCELLED"}

\* to_list(1000)
ListLimit == 1000

Min(a, b) == IF a < b THEN a ELSE b

\* cursor.to_list(length): at most `length` documents
to_list(docs, length) == SubSeq(docs, 1, Min(Len(docs), length))

\* collection.find_one({"id": id}): the position of the first document with
\* this id, 0 for None
find_one(coll, id) ==
    IF \E i \in 1..Len(coll) : coll[i].id = id
    THEN CHOOSE i \in 1..Len(coll) :
            /\ coll[i].id = id
            /\ \A j \in 1..(i - 1) : coll[j].id # id
    ELSE 0

\* {"$set": fields} applied to one document
SetFields(doc, fields) ==
    [f \in DOMAIN doc \cup DOMAIN fields |->
        IF f \in DOMAIN fields THEN fields[f] ELSE doc[f]]

\* collection.update_one({"id": id}, {"$set": fields}): the first match, if any
update_one(coll, id, fields) ==
    LET i == find_one(coll, id)
    IN  IF i = 0 THEN coll ELSE [coll EXCEPT ![i] = SetFields(@, fields)]

\* faulty variant: the filter is dropped: the first document goes, whatever its id
delete_one_unfiltered(coll, id) ==
    IF coll = <<>> THEN coll ELSE Tail(coll)

\* collection.delete_one({"id": id}): the collection without the first match
delete_one(coll, id) ==
    LET i == find_one(coll, id)
    IN  IF i = 0 THEN coll
        ELSE SubSeq(coll, 1, i - 1) \o SubSeq(coll, i + 1, Len(coll))

\* collection.find({field: value}): the matching documents, in collection
\* order
find(coll, field, value) == SelectSeq(coll, LAMBDA doc : doc[field] = value)

Ids(coll) == {coll[i].id : i \in 1..Len(coll)}

\* the values datetime.utcnow() can return
Times == 0..MaxClock

\* the values n reads of the clock can return: the clock is the wall clock,
\* so a read may return what the one before returned, or less
utcnow_reads(n) == [1..n -> Times]

\* a datetime as the store keeps it: BSON holds milliseconds, the
\* microseconds are dropped
bson_datetime(t) == 2 * (t \div 2)

\* a document as insert_one, insert_many or $set store it
bson(doc) ==
    [f \in DOMAIN doc |->
        IF f \in {"created_at", "updated_at", "uploaded_at"}
        THEN bson_datetime(doc[f]) ELSE doc[f]]

----------------------------------------------------------------------------
(* Authentication *)

\* faulty variant: any token that is not empty passes
verify_admin_token_nonempty(credentials) == credentials # ""

\* verify_admin_token: whether the credentials pass
verify_admin_token(credentials) == credentials = ADMIN_TOKEN

\* Depends(verify_admin_token) over HTTPBearer(): the rejection a request
\* gets, if any
Rejections(token) ==
    IF token = NoHeader
    THEN {[status |-> s, detail |-> "Not authenticated"] : s \in NotAuthenticated}
    ELSE IF verify_admin_token(token) THEN {}
    ELSE {[status |-> 401, detail |-> "Invalid admin token"]}

Authorized(token) == Rejections(token) = {}

\* a protected handler's answer to a request that does not pass: the
\* dependency raises before the handler and its parameters are reached, so
\* the rejection is all that happens
Reject(request) ==
    /\ \E r \in Rejections(request.token) : resp' = r
    /\ req' = [op |-> request.op, token |-> request.token]
    /\ UNCHANGED <<store, uuids, inflight, write_failed>>

\* a handler that answers without touching anything
Answer(request, response) ==
    /\ req' = request
    /\ resp' = response
    /\ UNCHANGED <<store, uuids, inflight, write_failed>>

\* a handler reaches an await: its request joins those in flight
Suspend(task) == inflight' = inflight (+) SetToBag({task})

\* a suspended handler runs to its next await, or to its end
Resume(task, next) == inflight' = (inflight (-) SetToBag({task})) (+) next
Finish(task) == inflight' = inflight (-) SetToBag({task})

InFlight == BagToSet(inflight)

\* another request may be suspended (a bound of the model)
CanSuspend == BagCardinality(inflight) < MaxInFlight

ServerError == [status |-> 500, detail |-> "Internal Server Error"]
NotFound(what) == [status |-> 404, detail |-> what]

----------------------------------------------------------------------------
(* Products *)

\* class ProductUpdate: the fields a patch may carry
ProductUpdateFields ==
    {"name", "price", "image", "category", "description", "is_available"}

\* class ProductCreate: a request body parsed, `description` defaulting to ""
ProductCreate(body) ==
    [f \in {"name", "price", "image", "category", "description"} |->
        IF f \in DOMAIN body THEN body[f] ELSE ""]

\* class Product, built from a ProductCreate or a seed: the generated id,
\* the defaults and the two reads of the clock in `now`.  The six fields a
\* patch can reach are Optional in the stored document (a patch can store
\* None).
NewProduct(data, id, now) ==
    [id |-> id,
     name |-> Some(data.name),
     price |-> Some(data.price),
     image |-> Some(data.image),
     category |-> Some(data.category),
     description |-> Some(data.description),
     isFavorite |-> FALSE,
     is_available |-> Some(TRUE),
     created_at |-> now[1],
     updated_at |-> now[2]]

\* Product(**document): the document validates when no required field is None
IsProduct(doc) == \A f \in ProductUpdateFields : doc[f] # None

\* ProductUpdate(**body).dict(exclude_unset=True): the fields of the body the
\* model declares, with the values sent (a JSON null is None); other keys
\* are ignored
ProductUpdate(body) ==
    [f \in DOMAIN body \cap ProductUpdateFields |-> body[f]]

\* create_product up to its await: the dependency, and the Product built
\* with its id and the clock read twice
create_product(token, body, now) ==
    LET request == [op |-> "create_product", token |-> token, body |-> body]
        product_obj == NewProduct(ProductCreate(body), uuids.products, now)
    IN  IF ~Authorized(token) THEN Reject(request)
        ELSE /\ uuids' = [uuids EXCEPT !.products = @ + 1]
             /\ Suspend([req |-> request, pc |-> "insert_one",
                         product_obj |-> product_obj])
             /\ req' = request
             /\ resp' = NoResponse
             /\ UNCHANGED <<store, write_failed>>

\* insert_one takes effect and the Product built is returned
create_product_insert_one(task) ==
    /\ task.pc = "insert_one"
    /\ task.req.op = "create_product"
    /\ products' = Append(products, bson(task.product_obj))
    /\ req' = task.req
    /\ resp' = [status |-> 200, body |-> task.product_obj]
    /\ Finish(task)
    /\ UNCHANGED <<orders, gallery, files, uuids, write_failed>>

\* [Product(**product) for product in products]
ProductList(docs) ==
    IF \A i \in 1..Len(docs) : IsProduct(docs[i])
    THEN [status |-> 200, body |-> docs]
    ELSE ServerError

get_products ==
    Answer([op |-> "get_products"],
           ProductList(to_list(products, ListLimit)))

get_products_by_category(category) ==
    Answer([op |-> "get_products_by_category", category |-> category],
           ProductList(to_list(
               find(products, "category", Some(category)),
               ListLimit)))

\* what get_product answers in the current state
get_product_response(product_id) ==
    LET i == find_one(products, product_id)
    IN  IF i = 0 THEN NotFound("Product not found")
        ELSE IF IsProduct(products[i])
        THEN [status |-> 200, body |-> products[i]]
        ELSE ServerError

get_product(product_id) ==
    Answer([op |-> "get_product", id |-> product_id],
           get_product_response(product_id))

\* update_product from the dependency and find_one to the await of
\* update_one: update_data, with updated_at read from the clock
update_product(token, product_id, body, now) ==
    LET request == [op |-> "update_product", token |-> token,
                    id |-> product_id, body |-> body]
        update_data == SetFields(ProductUpdate(body),
                                 [updated_at |-> now[1]])
    IN  IF ~Authorized(token) THEN Reject(request)
        ELSE IF find_one(products, product_id) = 0
        THEN Answer(request, NotFound("Product not found"))
        ELSE /\ Suspend([req |-> request, pc |-> "update_one",
                         set |-> bson(update_data)])
             /\ req' = request
             /\ resp' = NoResponse
             /\ UNCHANGED <<store, uuids, write_failed>>

\* update_one takes effect
update_product_update_one(task) ==
    /\ task.pc = "update_one"
    /\ task.req.op = "update_product"
    /\ products' = update_one(products, task.req.id, task.set)
    /\ Resume(task, SetToBag({[req |-> task.req, pc |-> "find_one"]}))
    /\ req' = task.req
    /\ resp' = NoResponse
    /\ UNCHANGED <<orders, gallery, files, uuids, write_failed>>

\* the second find_one and Product(**updated_product)
update_product_return(task) ==
    /\ task.pc = "find_one"
    /\ task.req.op = "update_product"
    /\ LET request == task.req
           i == find_one(products, request.id)
       IN  /\ req' = request
           /\ resp' = IF i = 0 THEN ServerError
                      ELSE IF IsProduct(products[i])
                      THEN [status |-> 200, body |-> products[i]]
                      ELSE ServerError
    /\ Finish(task)
    /\ UNCHANGED <<store, uuids, write_failed>>

delete_product(token, product_id) ==
    LET request == [op |-> "delete_product", token |-> token, id |-> product_id]
    IN  IF ~Authorized(token) THEN Reject(request)
        ELSE IF find_one(products, product_id) = 0
        THEN Answer(request, NotFound("Product not found"))
        ELSE /\ products' = delete_one(products, product_id)
             /\ req' = request
             /\ resp' = [status |-> 200, message |-> "Product deleted successfully"]
             /\ UNCHANGED <<orders, gallery, files, uuids, inflight,
                            write_failed>>

\* toggle_favorite up to its first await: find_one
toggle_favorite(product_id) ==
    LET request == [op |-> "toggle_favorite", id |-> product_id]
        i == find_one(products, product_id)
    IN  IF i = 0 THEN Answer(request, NotFound("Product not found"))
        ELSE /\ Suspend([req |-> request, pc |-> "update_one",
                          isFavorite |-> products[i].isFavorite])
             /\ req' = request
             /\ resp' = NoResponse
             /\ UNCHANGED <<store, uuids, write_failed>>

\* faulty variant: the status read is stored back without the `not`
toggle_favorite_update_one_same(task) ==
    /\ task.pc = "update_one"
    /\ task.req.op = "toggle_favorite"
    /\ products' = update_one(products, task.req.id,
                              [isFavorite |-> task.isFavorite])
    /\ req' = task.req
    /\ resp' = [status |-> 200, message |-> "Favorite status updated",
                isFavorite |-> task.isFavorite]
    /\ Finish(task)
    /\ UNCHANGED <<orders, gallery, files, uuids, write_failed>>

\* new_favorite_status, from the document read before the await, and update_one
toggle_favorite_update_one(task) ==
    /\ task.pc = "update_one"
    /\ task.req.op = "toggle_favorite"
    /\ LET request == task.req
           new_favorite_status == ~task.isFavorite
       IN  /\ products' = update_one(products, request.id,
                                     [isFavorite |-> new_favorite_status])
           /\ req' = request
           /\ resp' = [status |-> 200, message |-> "Favorite status updated",
                       isFavorite |-> new_favorite_status]
    /\ Finish(task)
    /\ UNCHANGED <<orders, gallery, files, uuids, write_failed>>

\* the seed products of initialize_sample_data (names and descriptions
\* transliterated)
sample_products ==
    <<[name |-> "Margarita Pizza", price |-> 450, image |-> "photo-1611915365928",
       category |-> "pizza", description |-> "mozzarella and tomato"],
      [name |-> "Cheeseburger", price |-> 250, image |-> "photo-18866153",
       category |-> "burger", description |-> "cheese, patty and vegetables"],
      [name |-> "Cappuccino", price |-> 120, image |-> "photo-312418",
       category |-> "coffee", description |-> "hot coffee with milk foam"],
      [name |-> "Chocolate Dessert", price |-> 180, image |-> "photo-2638026",
       category |-> "dessert", description |-> "chocolate dessert"],
      [name |-> "Latte", price |-> 140, image |-> "photo-549222",
       category |-> "coffee", description |-> "coffee with milk and foam"],
      [name |-> "Pepperoni Pizza", price |-> 520, image |-> "photo-1611915365928",
       category |-> "pizza", description |-> "pepperoni and cheese"]>>

\* products.append(Product(**product_data).dict()) for every seed: each
\* Product takes an id and reads the clock twice; the list as insert_many
\* sends it
seed_documents(now) ==
    [k \in 1..Len(sample_products) |->
        bson(NewProduct(sample_products[k], uuids.products + k - 1,
                        <<now[2 * k - 1], now[2 * k]>>))]

\* faulty variant: the seeds are built without looking for existing products
initialize_sample_data_unchecked(now) ==
    /\ Suspend([req |-> [op |-> "initialize_sample_data"], pc |-> "insert_many",
                products |-> seed_documents(now)])
    /\ uuids' = [uuids EXCEPT !.products = @ + Len(sample_products)]
    /\ req' = [op |-> "initialize_sample_data"]
    /\ resp' = NoResponse
    /\ UNCHANGED <<store, write_failed>>

\* initialize_sample_data from find().to_list(1) to the await of
\* insert_many: the check, and the Product of every seed
initialize_sample_data(now) ==
    LET request == [op |-> "initialize_sample_data"]
        existing_products == to_list(products, 1)
    IN  IF existing_products # <<>>
        THEN Answer(request, [status |-> 200,
                              message |-> "Sample data already exists"])
        ELSE /\ Suspend([req |-> request, pc |-> "insert_many",
                         products |-> seed_documents(now)])
             /\ uuids' = [uuids EXCEPT !.products = @ + Len(sample_products)]
             /\ req' = request
             /\ resp' = NoResponse
             /\ UNCHANGED <<store, write_failed>>

\* insert_many takes effect
initialize_sample_data_insert_many(task) ==
    /\ task.pc = "insert_many"
    /\ task.req.op = "initialize_sample_data"
    /\ products' = products \o task.products
    /\ req' = task.req
    /\ resp' = [status |-> 200, message |-> "Inserted sample products",
                inserted |-> Len(task.products)]
    /\ Finish(task)
    /\ UNCHANGED <<orders, gallery, files, uuids, write_failed>>

----------------------------------------------------------------------------
(* Orders *)

\* class OrderCreate: the fields of a request body the model declares
OrderCreate(body) ==
    [f \in {"customer_name", "phone", "cart_items", "total"} |-> body[f]]

\* class Order, built from an OrderCreate: the generated id, the default
\* status and the two reads of the clock in `now`
NewOrder(data, id, now) ==
    SetFields([id |-> id,
               status |-> "PENDING",
               created_at |-> now[1],
               updated_at |-> now[2]],
              data)

\* create_order up to its await: the Order built with its id and the clock
\* read twice
create_order(body, now) ==
    LET request == [op |-> "create_order", body |-> body]
        order_obj == NewOrder(OrderCreate(body), uuids.orders, now)
    IN  /\ uuids' = [uuids EXCEPT !.orders = @ + 1]
        /\ Suspend([req |-> request, pc |-> "insert_one",
                    order_obj |-> order_obj])
        /\ req' = request
        /\ resp' = NoResponse
        /\ UNCHANGED <<store, write_failed>>

\* insert_one takes effect and the Order built is returned
create_order_insert_one(task) ==
    /\ task.pc = "insert_one"
    /\ task.req.op = "create_order"
    /\ orders' = Append(orders, bson(task.order_obj))
    /\ req' = task.req
    /\ resp' = [status |-> 200, body |-> task.order_obj]
    /\ Finish(task)
    /\ UNCHANGED <<products, gallery, files, uuids, write_failed>>

\* the position of the first document with the greatest value of `field`
Newest(docs, field) ==
    CHOOSE i \in 1..Len(docs) :
        /\ \A j \in 1..Len(docs) : docs[j][field] <= docs[i][field]
        /\ \A j \in 1..(i - 1) : docs[j][field] < docs[i][field]

\* faulty variant: the sort is left out: the documents come in collection order
unsorted(docs, field) == docs

\* cursor.sort(field, -1): the documents by descending `field`
RECURSIVE sort_descending(_, _)
sort_descending(docs, field) ==
    IF docs = <<>> THEN <<>>
    ELSE LET i == Newest(docs, field)
         IN  <<docs[i]>>
             \o sort_descending(SubSeq(docs, 1, i - 1)
                                \o SubSeq(docs, i + 1, Len(docs)), field)

\* what get_orders answers in the current state
get_orders_response ==
    [status |-> 200,
     body |-> to_list(sort_descending(orders, "created_at"), ListLimit)]

get_orders == Answer([op |-> "get_orders"], get_orders_response)

\* what get_order answers in the current state
get_order_response(order_id) ==
    LET i == find_one(orders, order_id)
    IN  IF i = 0 THEN NotFound("Order not found")
        ELSE [status |-> 200, body |-> orders[i]]

get_order(order_id) ==
    Answer([op |-> "get_order", id |-> order_id], get_order_response(order_id))

\* a value that is no member of OrderStatus fails validation
Unprocessable == [status |-> 422, detail |-> "value is not a valid enumeration member"]

\* update_order_status from the dependency, the body's validation and
\* find_one to the await of update_one: the $set, with updated_at read from
\* the clock
update_order_status(token, order_id, status, now) ==
    LET request == [op |-> "update_order_status", token |-> token,
                    id |-> order_id, status |-> status]
    IN  IF ~Authorized(token) THEN Reject(request)
        ELSE IF status \notin OrderStatus THEN Answer(request, Unprocessable)
        ELSE IF find_one(orders, order_id) = 0
        THEN Answer(request, NotFound("Order not found"))
        ELSE /\ Suspend([req |-> request, pc |-> "update_one",
                         set |-> bson([status |-> status,
                                       updated_at |-> now[1]])])
             /\ req' = request
             /\ resp' = NoResponse
             /\ UNCHANGED <<store, uuids, write_failed>>

\* faulty variant: the status is set and updated_at is left as it was
update_order_status_update_one_stale(task) ==
    /\ task.pc = "update_one"
    /\ task.req.op = "update_order_status"
    /\ orders' = update_one(orders, task.req.id, [status |-> task.set.status])
    /\ req' = task.req
    /\ resp' = [status |-> 200, message |-> "Order status updated",
                order_status |-> task.req.status]
    /\ Finish(task)
    /\ UNCHANGED <<products, gallery, files, uuids, write_failed>>

\* update_one takes effect
update_order_status_update_one(task) ==
    /\ task.pc = "update_one"
    /\ task.req.op = "update_order_status"
    /\ LET request == task.req
       IN  /\ orders' = update_one(orders, request.id, task.set)
           /\ req' = request
           /\ resp' = [status |-> 200, message |-> "Order status updated",
                       order_status |-> request.status]
    /\ Finish(task)
    /\ UNCHANGED <<products, gallery, files, uuids, write_failed>>

\* what get_orders_by_status answers in the current state
get_orders_by_status_response(status) ==
    IF status \notin OrderStatus THEN Unprocessable
    ELSE [status |-> 200,
          body |-> to_list(
              sort_descending(find(orders, "status", status),
                              "created_at"),
              ListLimit)]

get_orders_by_status(status) ==
    Answer([op |-> "get_orders_by_status", status |-> status],
           get_orders_by_status_response(status))

----------------------------------------------------------------------------
(* Gallery *)

\* file.content_type.startswith("image/"), a content type being <<type, subtype>>
IsImage(content_type) == content_type[1] = "image"

\* file.filename.split(".")[-1], a file name being its dot-separated parts
file_extension(filename) == filename[Len(filename)]

\* upload_image up to its first await: the dependency, the content type,
\* the generated name, the file written to UPLOAD_DIR and the GalleryImage
\* built (its id and uploaded_at)
upload_image(token, file, now) ==
    LET request == [op |-> "upload_image", token |-> token, file |-> file]
        filename == <<uuids.files, file_extension(file.filename)>>
        gallery_image == [id |-> uuids.gallery, filename |-> filename,
                          url |-> <<"uploads", filename>>,
                          uploaded_at |-> now[1]]
    IN  IF ~Authorized(token) THEN Reject(request)
        ELSE IF ~IsImage(file.content_type)
        THEN Answer(request, [status |-> 400, detail |-> "File must be an image"])
        ELSE /\ files' = files \cup {filename}
             /\ uuids' = [uuids EXCEPT !.files = @ + 1, !.gallery = @ + 1]
             /\ Suspend([req |-> request, pc |-> "insert_one",
                         document |-> bson(gallery_image)])
             /\ req' = request
             /\ resp' = NoResponse
             /\ UNCHANGED <<products, orders, gallery, write_failed>>

\* insert_one takes effect, or raises: the file stays either way
upload_image_insert_one(task, ok) ==
    /\ task.pc = "insert_one"
    /\ task.req.op = "upload_image"
    /\ req' = task.req
    /\ IF ok
       THEN /\ gallery' = Append(gallery, task.document)
            /\ resp' = [status |-> 200, url |-> task.document.url,
                        filename |-> task.document.filename]
            /\ UNCHANGED write_failed
       ELSE /\ resp' = ServerError
            /\ write_failed' = TRUE
            /\ UNCHANGED gallery
    /\ Finish(task)
    /\ UNCHANGED <<products, orders, files, uuids>>

get_gallery_images ==
    Answer([op |-> "get_gallery_images"],
           [status |-> 200,
            body |-> to_list(sort_descending(gallery, "uploaded_at"), ListLimit)])

\* delete_gallery_image up to its first await: the dependency, then find_one
delete_gallery_image(token, image_id) ==
    LET request == [op |-> "delete_gallery_image", token |-> token,
                    id |-> image_id]
        i == find_one(gallery, image_id)
    IN  IF ~Authorized(token) THEN Reject(request)
        ELSE IF i = 0 THEN Answer(request, NotFound("Image not found"))
        ELSE /\ Suspend([req |-> request, pc |-> "unlink",
                         image |-> gallery[i]])
             /\ req' = request
             /\ resp' = NoResponse
             /\ UNCHANGED <<store, uuids, write_failed>>

\* faulty variant: the file is left on disk
delete_gallery_image_unlink_skipped(task) ==
    /\ task.pc = "unlink"
    /\ task.req.op = "delete_gallery_image"
    /\ Resume(task, SetToBag({[task EXCEPT !.pc = "delete_one"]}))
    /\ req' = task.req
    /\ resp' = NoResponse
    /\ UNCHANGED <<store, uuids, write_failed>>

\* if file_path.exists(): file_path.unlink()
delete_gallery_image_unlink(task) ==
    /\ task.pc = "unlink"
    /\ task.req.op = "delete_gallery_image"
    /\ IF task.image.filename \in files
       THEN files' = files \ {task.image.filename}
       ELSE UNCHANGED files
    /\ Resume(task, SetToBag({[task EXCEPT !.pc = "delete_one"]}))
    /\ req' = task.req
    /\ resp' = NoResponse
    /\ UNCHANGED <<products, orders, gallery, uuids, write_failed>>

\* delete_one takes effect, or raises
delete_gallery_image_delete_one(task, ok) ==
    /\ task.pc = "delete_one"
    /\ task.req.op = "delete_gallery_image"
    /\ req' = task.req
    /\ IF ok
       THEN /\ gallery' = delete_one(gallery, task.req.id)
            /\ resp' = [status |-> 200, message |-> "Image deleted successfully"]
            /\ UNCHANGED write_failed
       ELSE /\ resp' = ServerError
            /\ write_failed' = TRUE
            /\ UNCHANGED gallery
    /\ Finish(task)
    /\ UNCHANGED <<products, orders, files, uuids>>

----------------------------------------------------------------------------
(* Statistics *)

\* sum(order.get("total", 0) for order in docs)
RECURSIVE sum_total(_)
sum_total(docs) ==
    IF docs = <<>> THEN 0
    ELSE IF Len(docs) = 1 THEN docs[1].total
    ELSE LET half == Len(docs) \div 2
         IN  sum_total(SubSeq(docs, 1, half))
             + sum_total(SubSeq(docs, half + 1, Len(docs)))

\* get_admin_stats reads the store six times, with an await at each read.
\* The values of today_orders and today_sales, read over the server's local
\* day, are left out of the answer; the steps that read them are kept.  Up
\* to its first read: the dependency, then count_documents({}) on products
get_admin_stats(token) ==
    LET request == [op |-> "get_admin_stats", token |-> token]
    IN  IF ~Authorized(token) THEN Reject(request)
        ELSE /\ Suspend([req |-> request, pc |-> "count_orders",
                         stats |-> [total_products |-> Len(products)]])
             /\ req' = request
             /\ resp' = NoResponse
             /\ UNCHANGED <<store, uuids, write_failed>>

\* count_documents({}) on orders
get_admin_stats_count_orders(task) ==
    /\ task.pc = "count_orders"
    /\ Resume(task, SetToBag({[req |-> task.req, pc |-> "count_pending",
                               stats |-> SetFields(task.stats,
                                   [total_orders |-> Len(orders)])]}))
    /\ req' = task.req
    /\ resp' = NoResponse
    /\ UNCHANGED <<store, uuids, write_failed>>

\* count_documents({"status": OrderStatus.PENDING})
get_admin_stats_count_pending(task) ==
    /\ task.pc = "count_pending"
    /\ Resume(task, SetToBag({[req |-> task.req, pc |-> "count_today",
                               stats |-> SetFields(task.stats,
                                   [pending_orders |->
                                       Len(find(orders, "status",
                                                "PENDING"))])]}))
    /\ req' = task.req
    /\ resp' = NoResponse
    /\ UNCHANGED <<store, uuids, write_failed>>

\* count_documents over today's orders
get_admin_stats_count_today(task) ==
    /\ task.pc = "count_today"
    /\ Resume(task, SetToBag({[task EXCEPT !.pc = "find_orders"]}))
    /\ req' = task.req
    /\ resp' = NoResponse
    /\ UNCHANGED <<store, uuids, write_failed>>

\* find().to_list(1000) and the sum of the totals
get_admin_stats_find_orders(task) ==
    /\ task.pc = "find_orders"
    /\ LET all_orders == to_list(orders, ListLimit)
       IN  Resume(task, SetToBag({[req |-> task.req, pc |-> "find_today",
                                   stats |-> SetFields(task.stats,
                                       [total_sales |->
                                           sum_total(all_orders)])]}))
    /\ req' = task.req
    /\ resp' = NoResponse
    /\ UNCHANGED <<store, uuids, write_failed>>

\* find() over today's orders, and the AdminStats returned
get_admin_stats_return(task) ==
    /\ task.pc = "find_today"
    /\ req' = task.req
    /\ resp' = [status |-> 200, body |-> task.stats]
    /\ Finish(task)
    /\ UNCHANGED <<store, uuids, write_failed>>

----------------------------------------------------------------------------
(* Inputs *)

\* the request body of POST /orders: it carries a key OrderCreate does not
\* declare
OrderBodies ==
    {[customer_name |-> "Cholpon", phone |-> "0777", total |-> 280,
      status |-> "DELIVERED",
      cart_items |-> <<[product_id |-> 2, product_name |-> "Latte",
                        price |-> 140, quantity |-> 2, image |-> "y"]>>]}

\* the order a bulk run repeats
BulkOrder ==
    [customer_name |-> "Aibek", phone |-> "0555", total |-> 450,
     cart_items |-> <<[product_id |-> 1, product_name |-> "Test Pizza",
                       price |-> 450, quantity |-> 1, image |-> "x"]>>]

\* the inputs of the runs over every admin endpoint
AdminProduct == [name |-> "Test Pizza", price |-> 450, image |-> "x",
                 category |-> "pizza"]
AdminPatch == [price |-> Some(500), is_available |-> Some(FALSE)]
AdminUpload == [filename |-> <<"cat", "png">>, content_type |-> <<"image", "png">>]

\* n reads of a clock that shows the same value throughout a run
steady_clock(n) == [i \in 1..n |-> 0]

\* the ids requests name: those a run can generate
OrderIds == 1..MaxOrders

\* the status a request names: a member of OrderStatus, or not
RequestStatuses == {"PENDING", "READY", "SHIPPED"}

\* uploads: an image whose name has two dots, and a text file
Uploads ==
    {[filename |-> <<"menu", "v2", "jpg">>, content_type |-> <<"image", "jpeg">>],
     [filename |-> <<"notes", "txt">>, content_type |-> <<"text", "plain">>]}

ImageIds == 1..MaxImages

\* request bodies of PUT /products/{id}: fields with values, a field sent as
\* JSON null, and a key ProductUpdate does not declare
PatchBodies ==
    {[id |-> 99],
     [price |-> Some(500), is_available |-> Some(FALSE)],
     [name |-> None]}

ProductIds == 1..MaxProducts
Categories == {"pizza", "coffee"}

----------------------------------------------------------------------------
(* Specifications *)

Init ==
    /\ products = <<>>
    /\ orders = <<>>
    /\ gallery = <<>>
    /\ files = {}
    /\ uuids = [products |-> 1, orders |-> 1, gallery |-> 1, files |-> 1]
    /\ inflight = EmptyBag
    /\ write_failed = FALSE
    /\ req = [op |-> "none"]
    /\ resp = NoResponse

\* the endpoints that write products' fields, called by the admin: products
\* are created under a steady clock and patched at any time
NextProducts ==
    \/ /\ uuids.products <= MaxProducts /\ CanSuspend
       /\ create_product(ADMIN_TOKEN, AdminProduct, steady_clock(2))
    \/ \E task \in InFlight : create_product_insert_one(task)
    \/ get_products
    \/ \E id \in ProductIds : get_product(id)
    \/ \E id \in ProductIds, body \in PatchBodies, now \in utcnow_reads(1) :
          CanSuspend /\ update_product(ADMIN_TOKEN, id, body, now)
    \/ \E task \in InFlight : update_product_update_one(task)
    \/ \E task \in InFlight : update_product_return(task)

\* the endpoints that list products, mark them and delete them, under a
\* steady clock
NextCatalog ==
    \/ \E token \in Credentials :
          /\ Authorized(token) => uuids.products <= MaxProducts /\ CanSuspend
          /\ create_product(token, AdminProduct, steady_clock(2))
    \/ \E task \in InFlight : create_product_insert_one(task)
    \/ get_products
    \/ \E category \in Categories : get_products_by_category(category)
    \/ \E id \in ProductIds : get_product(id)
    \/ \E token \in Credentials, id \in ProductIds : delete_product(token, id)
    \/ \E id \in ProductIds : CanSuspend /\ toggle_favorite(id)
    \/ \E task \in InFlight : toggle_favorite_update_one(task)

\* the endpoints that write orders' fields: orders are placed under a
\* steady clock and the admin sets their status at any time
NextOrders ==
    \/ \E body \in OrderBodies :
          /\ uuids.orders <= MaxOrders /\ CanSuspend
          /\ create_order(body, steady_clock(2))
    \/ \E task \in InFlight : create_order_insert_one(task)
    \/ \E id \in OrderIds, status \in RequestStatuses, now \in utcnow_reads(1) :
          CanSuspend /\ update_order_status(ADMIN_TOKEN, id, status, now)
    \/ \E task \in InFlight : update_order_status_update_one(task)

\* the endpoints that read orders: orders are placed at any time, and the
\* admin marks them READY under a steady clock
NextListing ==
    \/ \E body \in OrderBodies, now \in utcnow_reads(2) :
          /\ uuids.orders <= MaxOrders /\ CanSuspend
          /\ create_order(body, now)
    \/ \E task \in InFlight : create_order_insert_one(task)
    \/ \E id \in OrderIds :
          CanSuspend
          /\ update_order_status(ADMIN_TOKEN, id, "READY", steady_clock(1))
    \/ \E task \in InFlight : update_order_status_update_one(task)
    \/ get_orders
    \/ \E id \in OrderIds : get_order(id)
    \/ \E status \in RequestStatuses : get_orders_by_status(status)

\* the gallery endpoints, called by the admin under a steady clock; a
\* store write may fail
NextGallery ==
    \/ \E file \in Uploads :
          /\ uuids.files <= MaxImages /\ CanSuspend
          /\ upload_image(ADMIN_TOKEN, file, steady_clock(1))
    \/ \E task \in InFlight, ok \in BOOLEAN : upload_image_insert_one(task, ok)
    \/ get_gallery_images
    \/ \E id \in ImageIds :
          CanSuspend /\ delete_gallery_image(ADMIN_TOKEN, id)
    \/ \E task \in InFlight : delete_gallery_image_unlink(task)
    \/ \E task \in InFlight, ok \in BOOLEAN :
          delete_gallery_image_delete_one(task, ok)

SpecProducts == Init /\ [][NextProducts]_vars

SpecCatalog == Init /\ [][NextCatalog]_vars

SpecOrders == Init /\ [][NextOrders]_vars

SpecListing == Init /\ [][NextListing]_vars

SpecGallery == Init /\ [][NextGallery]_vars

\* the seed endpoint, with no other write to products: beside it, products
\* are read.  A call builds its seeds within one tick of the clock.
NextSeeding ==
    \/ \E t \in Times :
          CanSuspend
          /\ initialize_sample_data([i \in 1..(2 * Len(sample_products)) |-> t])
    \/ \E task \in InFlight : initialize_sample_data_insert_many(task)
    \/ get_products
    \/ \E id \in ProductIds : get_product(id)

SpecSeeding == Init /\ [][NextSeeding]_vars

\* the endpoints behind the admin token under a steady clock: the admin
\* fills the store, one request at a time, along with the checkout, and
\* clients that send another token or none call every endpoint at any time
OneAtATime == inflight = EmptyBag

Clients == Credentials \ {ADMIN_TOKEN}

NextAdmin ==
    \/ \E token \in Credentials :
          /\ Authorized(token) => uuids.products <= MaxProducts /\ OneAtATime
          /\ create_product(token, AdminProduct, steady_clock(2))
    \/ \E task \in InFlight : create_product_insert_one(task)
    \/ \E token \in Clients, id \in ProductIds :
          update_product(token, id, AdminPatch, steady_clock(1))
    \/ \E token \in Clients, id \in ProductIds : delete_product(token, id)
    \/ /\ uuids.orders <= MaxOrders /\ OneAtATime
       /\ create_order(BulkOrder, steady_clock(2))
    \/ \E task \in InFlight : create_order_insert_one(task)
    \/ \E token \in Clients, id \in OrderIds :
          update_order_status(token, id, "READY", steady_clock(1))
    \/ \E token \in Credentials :
          /\ Authorized(token) => uuids.files <= MaxImages /\ OneAtATime
          /\ upload_image(token, AdminUpload, steady_clock(1))
    \/ \E task \in InFlight : upload_image_insert_one(task, TRUE)
    \/ \E token \in Clients, id \in ImageIds : delete_gallery_image(token, id)
    \/ \E token \in Clients : get_admin_stats(token)

SpecAdmin == Init /\ [][NextAdmin]_vars

\* a store filled one order at a time, and the statistics read from it
NextBulk ==
    \/ /\ inflight = EmptyBag
       /\ Len(orders) < BulkOrders
       /\ create_order(BulkOrder, steady_clock(2))
    \/ \E task \in InFlight : create_order_insert_one(task)
    \/ inflight = EmptyBag /\ get_admin_stats(ADMIN_TOKEN)
    \/ \E task \in InFlight : get_admin_stats_count_orders(task)
    \/ \E task \in InFlight : get_admin_stats_count_pending(task)
    \/ \E task \in InFlight : get_admin_stats_count_today(task)
    \/ \E task \in InFlight : get_admin_stats_find_orders(task)
    \/ \E task \in InFlight : get_admin_stats_return(task)

SpecBulk == Init /\ [][NextBulk]_vars

----------------------------------------------------------------------------
(* Properties *)

\* the step just taken answered a request to `op`
Answered(op) == req'.op = op /\ resp'.status # 0

AdminOps ==
    {"create_product", "update_product", "delete_product",
     "update_order_status", "upload_image", "delete_gallery_image",
     "get_admin_stats"}

AuthorizationFailure == {401, 403}

\* C1: a request to an admin-protected operation whose token is not the
\* configured admin token is answered with an authorization failure, and
\* products, orders, gallery and the uploaded files stay as they were.
RejectsWithoutAdminToken ==
    [][(req'.op \in AdminOps /\ req'.token # ADMIN_TOKEN)
         => (resp'.status \in AuthorizationFailure /\ UNCHANGED store)]_vars

\* a product delete without any header is rejected in a store that holds a
\* product and a gallery image with its file
RejectedOnFilledStore ==
    /\ req.op = "delete_product"
    /\ req.token = NoHeader
    /\ resp.status \in AuthorizationFailure
    /\ products # <<>>
    /\ gallery # <<>>
    /\ files # {}

\* the requests that were suspended before the step and are not after it,
\* and those the step suspended
Finished == BagToSet(inflight (-) inflight')
Suspended == BagToSet(inflight' (-) inflight)

\* the fields of a product that a request body reaches
Supplied(body) == DOMAIN body \cap ProductUpdateFields

\* C2: an authorized update_product of an existing product keeps the id,
\* keeps every field the patch does not supply, advances updated_at, and
\* answers with the updated record.
UpdateProductPatchesAndReturns ==
    [][/\ (req'.op = "update_product"
           /\ \E t \in Finished : t.pc = "update_one") =>
            LET i == find_one(products, req'.id)
            IN  i # 0 =>
                  /\ products'[i].id = products[i].id
                  /\ \A f \in DOMAIN products[i] \
                               (Supplied(req'.body) \cup {"updated_at"}) :
                        products'[i][f] = products[i][f]
                  /\ products'[i].updated_at > products[i].updated_at
       /\ (Answered("update_product") /\ Finished # {}) =>
            LET i == find_one(products, req'.id)
            IN  i # 0 => /\ resp'.status = 200
                         /\ resp'.body = products[i]]_vars

\* C3 as stated: every completed toggle_favorite on a product that is still
\* there flips the stored isFavorite and reports the value stored.
ToggleFlipsStored ==
    [][(Answered("toggle_favorite") /\ resp'.status = 200) =>
          LET i == find_one(products, req'.id)
          IN  i # 0 =>
                /\ products'[i].isFavorite = ~products[i].isFavorite
                /\ resp'.isFavorite = products'[i].isFavorite]_vars

\* C3, amended: a toggle_favorite call reads the stored isFavorite when it
\* starts; when it completes it stores and reports the negation of the
\* value it read, and changes nothing else.  The stored value flips whenever
\* it still is the value read, that is when no other toggle of the product
\* wrote in between.
ToggleStoresNegationOfRead ==
    [][/\ (req'.op = "toggle_favorite" /\ Suspended # {}) =>
            \A t \in Suspended :
               t.isFavorite = products[find_one(products, req'.id)].isFavorite
       /\ (Answered("toggle_favorite") /\ resp'.status = 200) =>
            \E t \in Finished :
               /\ t.req = req'
               /\ resp'.isFavorite = ~t.isFavorite
               /\ LET i == find_one(products, req'.id)
                  IN  i # 0 =>
                        /\ products' = [products EXCEPT
                                          ![i].isFavorite = resp'.isFavorite]
                        /\ (products[i].isFavorite = t.isFavorite =>
                              products'[i].isFavorite = ~products[i].isFavorite)
      ]_vars

\* a toggle has reported False for a product that now stores False: an
\* earlier toggle of it had stored True
ToggledBack ==
    /\ req.op = "toggle_favorite"
    /\ resp.status = 200
    /\ resp.isFavorite = FALSE
    /\ find_one(products, req.id) # 0
    /\ products[find_one(products, req.id)].isFavorite = FALSE

SeedCount == Len(sample_products)

\* C4 as stated: with no other product write, the collection holds no
\* product before the first initialize_sample_data has inserted, and exactly
\* the 6 seeds ever after.
SeedsInsertedOnce == Len(products) \in {0, SeedCount}

\* C4, amended: a call that finds a product inserts nothing and reports that
\* sample data already exists; a call that finds none inserts the 6 seeds
\* after its check, so the collection holds exactly 6 products when it was
\* still empty at the insert, that is when no other call inserted between
\* this call's check and its insert.
SeedsInsertedAfterCheck ==
    [][/\ (req'.op = "initialize_sample_data" /\ Finished = {}) =>
            /\ products' = products
            /\ IF products # <<>>
               THEN resp' = [status |-> 200,
                             message |-> "Sample data already exists"]
               ELSE resp' = NoResponse /\ Suspended # {}
       /\ (req'.op = "initialize_sample_data" /\ Finished # {}) =>
            /\ Len(products') = Len(products) + SeedCount
            /\ SubSeq(products', 1, Len(products)) = products
            /\ resp'.status = 200 /\ resp'.inserted = SeedCount
            /\ (products = <<>> => Len(products') = SeedCount)
       /\ SeedCount = 6]_vars

\* a call has found the seeds in place and reported so
SeedsAlreadyExist ==
    /\ req.op = "initialize_sample_data"
    /\ resp = [status |-> 200, message |-> "Sample data already exists"]
    /\ Len(products) = SeedCount

\* the order of a status in PENDING -> READY -> DELIVERED; CANCELLED ends
\* the flow like DELIVERED
Stage(status) ==
    CASE status = "PENDING" -> 1
      [] status = "READY" -> 2
      [] status = "DELIVERED" -> 3
      [] status = "CANCELLED" -> 3

\* C5: the status of an order only moves forward: it never goes back (READY
\* to PENDING), and never changes once DELIVERED or CANCELLED.
StatusMovesForward ==
    [][\A i \in 1..Len(orders) :
          \/ orders'[i].status = orders[i].status
          \/ Stage(orders'[i].status) > Stage(orders[i].status)]_vars

\* what create_order and get_order do in C6, as stated and as amended: an
\* order that create_order returns is stored, to the millisecond, with status
\* PENDING, and get_order returns it as stored
OrderCreatedPending ==
    Answered("create_order") =>
       /\ resp'.status = 200
       /\ resp'.body.status = "PENDING"
       /\ orders' = Append(orders, bson(resp'.body))
       /\ \A id \in OrderIds :
             id = resp'.body.id =>
                get_order_response(id)' =
                   [status |-> 200, body |-> orders'[Len(orders')]]

\* C6 as stated: create_order stores the order it returns with status
\* PENDING; an authorized update_order_status(id, s) that succeeds leaves the
\* order with status s and a later updated_at, and id, customer_name, phone,
\* cart_items, total and created_at as they were, and get_order(id) then
\* returns that order.
OrderUpdateAdvancesUpdatedAt ==
    [][/\ OrderCreatedPending
       /\ (Answered("update_order_status") /\ resp'.status = 200) =>
            LET i == find_one(orders, req'.id)
            IN  /\ i # 0
                /\ orders'[i].status = req'.status
                /\ orders'[i].updated_at > orders[i].updated_at
                /\ orders' = [orders EXCEPT
                                ![i].status = req'.status,
                                ![i].updated_at = orders'[i].updated_at]
                /\ \A id \in OrderIds :
                      id = req'.id =>
                         get_order_response(id)' =
                            [status |-> 200, body |-> orders'[i]]]_vars

\* C6, amended: create_order stores the order it returns with status PENDING;
\* an authorized update_order_status(id, s) that succeeds leaves the order
\* with status s and with the updated_at this call read from the clock
\* before its write was submitted, to the millisecond, which may equal or
\* precede the updated_at stored before; id, customer_name, phone,
\* cart_items, total and created_at stay as they were; get_order(id) then
\* returns that order, and its status stays s until a status update changes it.
OrderCreatedPendingThenUpdated ==
    [][/\ OrderCreatedPending
       /\ (req'.op = "update_order_status" /\ Suspended # {}) =>
            \A t \in Suspended :
               /\ t.set.status = req'.status
               /\ t.set.updated_at = bson_datetime(t.set.updated_at)
       /\ (Answered("update_order_status") /\ resp'.status = 200) =>
            \E t \in Finished :
               LET i == find_one(orders, req'.id)
               IN  /\ t.req = req'
                   /\ i # 0
                   /\ resp'.order_status = req'.status
                   /\ orders' = [orders EXCEPT
                                   ![i].status = req'.status,
                                   ![i].updated_at = t.set.updated_at]
                   /\ \A id \in OrderIds :
                         id = req'.id =>
                            get_order_response(id)' =
                               [status |-> 200, body |-> orders'[i]]
       /\ \A i \in 1..Len(orders) :
             orders'[i].status # orders[i].status =>
                Answered("update_order_status")]_vars

\* an order was marked READY, and get_order shows it so, with the updated_at
\* the call read, later than created_at
OrderMarkedReady ==
    /\ req.op = "update_order_status"
    /\ resp.status = 200
    /\ req.status = "READY"
    /\ get_order_response(req.id).status = 200
    /\ get_order_response(req.id).body.status = "READY"
    /\ get_order_response(req.id).body.updated_at
          > get_order_response(req.id).body.created_at

NonIncreasing(docs, field) ==
    \A i \in 1..(Len(docs) - 1) : docs[i][field] >= docs[i + 1][field]

\* C7: in every state, get_orders and get_orders_by_status(s) answer with
\* their orders by non-increasing created_at, and get_orders_by_status(s)
\* with orders of status s only.
OrdersListedNewestFirst ==
    /\ get_orders_response.status = 200
    /\ NonIncreasing(get_orders_response.body, "created_at")
    /\ \A s \in OrderStatus :
          LET r == get_orders_by_status_response(s)
          IN  /\ r.status = 200
              /\ NonIncreasing(r.body, "created_at")
              /\ \A i \in 1..Len(r.body) : r.body[i].status = s

\* get_orders has answered with two orders, the newer one first
TwoOrdersListed ==
    /\ req.op = "get_orders"
    /\ resp.status = 200
    /\ Len(resp.body) >= 2
    /\ resp.body[1].created_at > resp.body[2].created_at
    /\ resp.body[1] = orders[2]

\* C8: get_admin_stats answers with the number of products, the number of
\* orders, the number of PENDING orders and the sum of total over all the
\* orders of the store.
StatsMatchStore ==
    [][(Answered("get_admin_stats") /\ resp'.status = 200) =>
          /\ resp'.body.total_products = Len(products)
          /\ resp'.body.total_orders = Len(orders)
          /\ resp'.body.pending_orders =
                Len(SelectSeq(orders, LAMBDA o : o.status = "PENDING"))
          /\ resp'.body.total_sales = sum_total(orders)]_vars

\* the ids of the products whose insert is still on its way
Arriving ==
    {t.product_obj.id : t \in {u \in InFlight : u.req.op = "create_product"}}

\* the ids of the products that were stored and are gone
Gone == (1..(uuids.products - 1)) \ (Ids(products) \cup Arriving)

\* C9: an authorized delete_product of an existing id succeeds and removes
\* that product and no other; get_product(id) then answers NotFound and
\* get_products lists no such product; a product that is gone never comes
\* back; an authorized delete_product of an id that is gone answers
\* NotFound and leaves the collection as it was.
DeleteRemovesForGood ==
    [][/\ (Answered("delete_product")
            /\ resp'.status \notin AuthorizationFailure) =>
            LET i == find_one(products, req'.id)
                listed == ProductList(to_list(products, ListLimit))'
            IN  IF i # 0
                THEN /\ resp'.status = 200
                     /\ products' = SubSeq(products, 1, i - 1)
                                    \o SubSeq(products, i + 1, Len(products))
                     /\ req'.id \notin Ids(products')
                     /\ \A id \in ProductIds :
                           id = req'.id =>
                              get_product_response(id)'.status = 404
                     /\ listed.status = 200 =>
                           \A k \in 1..Len(listed.body) :
                              listed.body[k].id # req'.id
                ELSE /\ resp'.status = 404
                     /\ products' = products
       /\ \A id \in Gone : id \notin Ids(products')]_vars

\* a product that had been created was deleted, and deleting it again was
\* answered NotFound
SecondDeleteNotFound ==
    /\ req.op = "delete_product"
    /\ req.token = ADMIN_TOKEN
    /\ resp.status = 404
    /\ req.id \in Gone

GalleryOps == {"upload_image", "delete_gallery_image"}

\* no gallery upload or delete is in progress
GalleryAtRest == \A t \in InFlight : t.req.op \notin GalleryOps

Filenames == {gallery[i].filename : i \in 1..Len(gallery)}

\* C10: while no gallery upload or delete is in progress and no store write
\* has failed, the records and the files correspond one to one by filename;
\* a delete_gallery_image that succeeds leaves neither the record nor its
\* file; its unlink step passes without an error whether the file is there
\* or not, and the delete_one after it either answers success or fails,
\* which is recorded as a failed store write and leaves the records alone.
GalleryMatchesFiles ==
    /\ []((GalleryAtRest /\ ~write_failed) =>
             /\ Filenames = files
             /\ \A i, j \in 1..Len(gallery) :
                   gallery[i].filename = gallery[j].filename => i = j)
    /\ [][/\ (Answered("delete_gallery_image") /\ resp'.status = 200) =>
               \E t \in Finished :
                  /\ t.req = req'
                  /\ req'.id \notin Ids(gallery')
                  /\ t.image.filename \notin files'
          /\ (req'.op = "delete_gallery_image"
              /\ \E t \in Finished : t.pc = "unlink") =>
               /\ resp' = NoResponse
               /\ \E t \in Finished :
                     /\ files' = files \ {t.image.filename}
                     /\ Suspended = {[t EXCEPT !.pc = "delete_one"]}
          /\ (req'.op = "delete_gallery_image"
              /\ \E t \in Finished : t.pc = "delete_one") =>
               \/ resp'.status = 200 /\ write_failed' = write_failed
               \/ /\ resp'.status = 500
                  /\ write_failed'
                  /\ gallery' = gallery]_vars

\* an image was uploaded and deleted again, with no failure: its record and
\* its file are gone, and another image is left with its file
ImageAndFileDeleted ==
    /\ req.op = "delete_gallery_image"
    /\ resp.status = 200
    /\ inflight = EmptyBag
    /\ ~write_failed
    /\ req.id \notin Ids(gallery)
    /\ gallery # <<>>
    /\ Filenames = files

====
